---------------------------- MODULE Spec2Model ----------------------------
(***************************************************************************)
(* The WBS editor (components/WBSEditor.tsx): the React state of the        *)
(* component, one action per event handler, the date arithmetic the         *)
(* handlers use and the values the render derives from the state.           *)
(*                                                                          *)
(* Dates are the strings "YYYY-MM-DD" of the source, held as <<y, m, d>>;   *)
(* the empty string is EmptyDate.  A JavaScript Date at local midnight is   *)
(* held as its day number (days since 1970-01-01).  Texts are sequences of  *)
(* characters.                                                              *)
(***************************************************************************)
EXTENDS Integers, Sequences, FiniteSets, TLC

VARIABLES
    localProject,       \* useState<Project>: [id, name, startDate, endDate, wbs, tasks,
                        \*                     manager, engineers, holidays]
    logs,               \* prop: the log records, each [date, engineer, projectId, hours]
    loginData,          \* prop: [role, user]
    viewMode,           \* useState: "day" | "week" | "month" | "custom"
    colWidth,           \* useState(40)
    showEditModal,      \* useState(false)
    showTeamModal,      \* useState(false)
    showWBSModal,       \* useState(false)
    editingTask,        \* useState<Partial<Task>>({})
    statsWeeklyDate,    \* useState(project.startDate or today)
    showDelayModal,     \* useState(false)
    pendingDelayTask,   \* useState<{task, newDate} | null>
    delayReasonInput,   \* useState('')
    draggingState,      \* useState<{isDragging, task, startX, startDate}>
    tempDragOffsetPx,   \* useState(0)
    lastEvent,          \* history: the handler that ran last, and what it handed out
    deletedIds,         \* history: the ids of the tasks deleted so far
    preDragTasks        \* history: the task list when the open drag session began

vars == <<localProject, logs, loginData, viewMode, colWidth, showEditModal, showTeamModal,
          showWBSModal, editingTask, statsWeeklyDate, showDelayModal, pendingDelayTask,
          delayReasonInput, draggingState, tempDragOffsetPx, lastEvent, deletedIds,
          preDragTasks>>

\* The task-edit modal, the WBS modal, the weekly panel's reference date and
\* its log records, with the record of deletions.
PanelState == <<showEditModal, showWBSModal, editingTask, statsWeeklyDate, deletedIds, logs>>

---------------------------------------------------------------------------
(* Bounds of the model and the environment's inputs.                       *)

\* A task bar is pressed only while its start lies within this many days of BaseDate.
MaxShiftDays == 1
\* Tasks are added only while the project holds fewer than this many.
MaxTasks == 2
\* Categories are added only while the project holds fewer than this many.
MaxCategories == 2
\* The longest task list a rollup is taken over.
MaxRollupTasks == 2

BaseDate == <<2025, 1, 31>>
\* The wall-clock date (new Date()) during the session.
Today == <<2025, 2, 1>>

EmptyDate == <<0, 0, 0>>
Null == [null |-> TRUE]
NoManager == "undefined"

\* Texts typed into the delay-reason textarea.
ReasonTexts == {<<>>, <<" ", "\n">>, <<" ", "r">>}
\* The engineers of the global settings, and the callers that open the editor.
GlobalEngineers == {"bob"}
Logins ==
    {[role |-> "Admin", user |-> "root"], [role |-> "Engineer", user |-> "bob"],
     [role |-> "Engineer", user |-> "eve"]}
\* Values typed into the fields of the task-edit modal: the duration (a number
\* input with no min), the delay reason.
EditInputs == {<<"duration", 0>>, <<"duration", -1>>, <<"delayReason", <<"r">>>>}
\* The tasks a rollup is taken over: category, start date, duration, progress.
RollupShapes ==
    [category : {"phase", "other"}, startDate : {EmptyDate, <<2025, 1, 1>>, <<2025, 1, 3>>},
     duration : {0, 1, 5}, progress : {50, 100}]
\* Dates picked in the project's start and end date fields: none, a year
\* back, this week, next summer, and past the ten-year cap.
ProjectDates == {EmptyDate, <<2024, 1, 1>>, <<2025, 1, 31>>, <<2025, 6, 1>>, <<2036, 1, 1>>}
\* Names typed into the name field of a WBS category.
CategoryNames == {"design", "build", "test"}
\* Readings of Date.now(), the host's wall clock, when a task is created:
\* milliseconds, counted from the creation of the project.
ClockReadings == {1000, 1001}
\* Mouse buttons of a pointer-down: 0 is the main button.
Buttons == {0, 2}
\* clientX of a pointer-down.
StartXs == {100}

---------------------------------------------------------------------------
(* Date arithmetic: JavaScript's Date on local midnights.                  *)

\* new Date(y, m - 1, d) as a day number; a day past the month's end carries over.
DaysFromCivil(ymd) ==
    LET y0  == ymd[1]
        m   == ymd[2]
        d   == ymd[3]
        y   == IF m <= 2 THEN y0 - 1 ELSE y0
        era == y \div 400
        yoe == y - era * 400
        mp  == IF m > 2 THEN m - 3 ELSE m + 9
        doy == (153 * mp + 2) \div 5 + d - 1
        doe == yoe * 365 + yoe \div 4 - yoe \div 100 + doy
    IN  era * 146097 + doe - 719468

\* getFullYear(), getMonth() + 1, getDate() of a day number.
CivilFromDays(z0) ==
    LET z   == z0 + 719468
        era == z \div 146097
        doe == z - era * 146097
        yoe == (doe - doe \div 1460 + doe \div 36524 - doe \div 146096) \div 365
        doy == doe - (365 * yoe + yoe \div 4 - yoe \div 100)
        mp  == (5 * doy + 2) \div 153
        d   == doy - (153 * mp + 2) \div 5 + 1
        m   == IF mp < 10 THEN mp + 3 ELSE mp - 9
        y   == yoe + era * 400
    IN  <<IF m <= 2 THEN y + 1 ELSE y, m, d>>

toLocalISOString(date) == CivilFromDays(date)

parseLocalDate(d) ==
    IF d = EmptyDate THEN DaysFromCivil(Today) ELSE DaysFromCivil(d)

\* Mutant: the string parsed as UTC and printed west of Greenwich, a day early.
addDays_UtcSkew(d, n) == toLocalISOString(parseLocalDate(d) + n - 1)

addDays(d, n) == toLocalISOString(parseLocalDate(d) + n)

getDaysDiff(s, e) == parseLocalDate(e) - parseLocalDate(s)

\* a > b on two date strings: zero-padded fields compare field by field,
\* and the empty string is below every date.
StrGreater(a, b) ==
    \/ a[1] > b[1]
    \/ a[1] = b[1] /\ a[2] > b[2]
    \/ a[1] = b[1] /\ a[2] = b[2] /\ a[3] > b[3]

\* Mutant: Math.floor in place of Math.round.
MathFloor(num, den) == num \div den

\* Math.round(num / den), den > 0: halves round towards +infinity.
MathRound(num, den) == (2 * num + den) \div (2 * den)

---------------------------------------------------------------------------
(* Texts.                                                                   *)

IsSpace(c) == c \in {" ", "\t", "\n", "\r"}

RECURSIVE TrimStart(_)
TrimStart(s) ==
    IF s # <<>> /\ IsSpace(Head(s)) THEN TrimStart(Tail(s)) ELSE s

RECURSIVE TrimEnd(_)
TrimEnd(s) ==
    IF s # <<>> /\ IsSpace(s[Len(s)]) THEN TrimEnd(SubSeq(s, 1, Len(s) - 1)) ELSE s

\* Mutant: the reason tested without trim().
Trim_None(s) == s

\* String.prototype.trim
Trim(s) == TrimEnd(TrimStart(s))

---------------------------------------------------------------------------
(* State.                                                                   *)

Task(id, start, dur) ==
    [id |-> id, title |-> "task", category |-> "phase", assignee |-> "",
     startDate |-> start, duration |-> dur, progress |-> 0, delayReason |-> <<>>]

\* The task lists of the projects handed in: a dated task, and one with no start date.
InitTaskLists == { <<Task(1, BaseDate, 3), Task(2, EmptyDate, 1)>> }

\* A WBS category as the project list creates it: expanded.
WBSCategory(id, name) == [id |-> id, name |-> name, collapsed |-> FALSE]

\* The project handed in, but for its tasks and its manager.
Project(ts, mgr) ==
    [id |-> <<"P", "1">>, name |-> <<"A", "b">>,
     startDate |-> BaseDate, endDate |-> EmptyDate, wbs |-> <<WBSCategory(1, "phase")>>,
     tasks |-> ts, manager |-> mgr, engineers |-> GlobalEngineers, holidays |-> {}]

\* The id of a Partial<Task> that has none: undefined, falsy in `if (finalTask.id)`.
NoId == 0
\* useState({}): every handler that reads editingTask runs after one has set it.
NoEditingTask == [id |-> NoId]

\* toLocalISOString() of the render: the wall-clock date.
todayDate == toLocalISOString(DaysFromCivil(Today))

NoDrag == [isDragging |-> FALSE, task |-> Null, startX |-> 0, startDate |-> EmptyDate]

Event(name) == [name |-> name, project |-> Null]

\* The state after construction, but for the props and the zoom.
MountedState ==
    /\ showEditModal = FALSE
    /\ showTeamModal = FALSE
    /\ showWBSModal = FALSE
    /\ editingTask = NoEditingTask
    /\ statsWeeklyDate =
          (IF localProject.startDate # EmptyDate THEN localProject.startDate ELSE todayDate)
    /\ showDelayModal = FALSE
    /\ pendingDelayTask = Null
    /\ delayReasonInput = <<>>
    /\ draggingState = NoDrag
    /\ tempDragOffsetPx = 0
    /\ lastEvent = Event("mount")
    /\ deletedIds = {}
    /\ preDragTasks = <<>>

\* The state after construction of an editor handed no log records.
Mounted == MountedState /\ logs = <<>>

Init ==
    /\ \E ts \in InitTaskLists, mgr \in {NoManager} \cup GlobalEngineers :
          localProject = Project(ts, mgr)
    /\ loginData \in Logins
    /\ viewMode = "day"
    /\ colWidth = 40
    /\ Mounted

\* Permission checks of the render.
isAdmin == loginData.role = "Admin"
isPM == localProject.manager = loginData.user

\* Mutant: any project that has a manager is editable.
canEditTasks_AnyManager == isAdmin \/ localProject.manager # NoManager

canEditTasks == isAdmin \/ isPM

\* Mutant: a backdrop that lets pointer events through.
NoBackdrop == FALSE

\* A modal's backdrop (fixed inset-0, above the chart) takes every pointer event
\* aimed at the chart beneath it.
ModalBackdropShown == showDelayModal \/ showTeamModal \/ showEditModal \/ showWBSModal


---------------------------------------------------------------------------
(* The drag gesture.                                                        *)

TaskIndexes == 1 .. Len(localProject.tasks)

\* Pointer offsets (clientX - startX) a pointer-move reports, in pixels.
DragOffsets ==
    {0, colWidth, -colWidth, colWidth - 1, -(colWidth - 1),
     colWidth \div 2, -(colWidth \div 2),
     (colWidth - 1) \div 2, -((colWidth - 1) \div 2)}

\* Mutant: the start date of every task replaced.
WithStartDate_EveryTask(tasks, id, newStart) ==
    [k \in 1 .. Len(tasks) |-> [tasks[k] EXCEPT !.startDate = newStart]]

\* The task list with the start date of task `id` replaced.
WithStartDate(tasks, id, newStart) ==
    [k \in 1 .. Len(tasks) |->
        IF tasks[k].id = id THEN [tasks[k] EXCEPT !.startDate = newStart] ELSE tasks[k]]

\* Mutant: the confirmed reschedule drops the reason.
WithDelay_NoReason(tasks, id, newStart, reason) == WithStartDate(tasks, id, newStart)

\* The task list with the start date and delay reason of task `id` replaced.
WithDelay(tasks, id, newStart, reason) ==
    [k \in 1 .. Len(tasks) |->
        IF tasks[k].id = id
        THEN [tasks[k] EXCEPT !.startDate = newStart, !.delayReason = reason]
        ELSE tasks[k]]

\* onMouseDown of the bar of task i, with e.button and e.clientX.
handleMouseDown(i, button, clientX) ==
    /\ i \in TaskIndexes
    /\ ~ModalBackdropShown
    /\ getDaysDiff(BaseDate, localProject.tasks[i].startDate) \in -MaxShiftDays .. MaxShiftDays
    /\ lastEvent' = Event("mouseDown")
    /\ IF ~canEditTasks \/ button # 0
       THEN UNCHANGED <<draggingState, tempDragOffsetPx, preDragTasks>>
       ELSE /\ draggingState' = [isDragging |-> TRUE, task |-> localProject.tasks[i],
                                 startX |-> clientX,
                                 startDate |-> localProject.tasks[i].startDate]
            /\ tempDragOffsetPx' = 0
            /\ preDragTasks' = localProject.tasks
    /\ UNCHANGED <<localProject, loginData, viewMode, colWidth, showTeamModal,
                   showDelayModal, pendingDelayTask, delayReasonInput>>
    /\ UNCHANGED PanelState

\* The window's mousemove listener, registered while isDragging.
handleMouseMove(clientX) ==
    /\ draggingState.isDragging
    /\ tempDragOffsetPx' = clientX - draggingState.startX
    /\ lastEvent' = Event("mouseMove")
    /\ UNCHANGED <<localProject, loginData, viewMode, colWidth, showTeamModal,
                   showDelayModal, pendingDelayTask, delayReasonInput, draggingState,
                   preDragTasks>>
    /\ UNCHANGED PanelState

\* Mutant: the day delta rounded down.
daysDelta_RoundedDown == tempDragOffsetPx \div colWidth

\* The rounded day delta of the open session.
daysDelta == MathRound(tempDragOffsetPx, colWidth)

\* Mutant: the new start date, not the new end date, compared with the original end.
DelayDetected_StartOnly(originalTask, newStartDate) ==
    StrGreater(newStartDate, addDays(originalTask.startDate, originalTask.duration))

\* Delay detection of handleMouseUp: the new end date is after the original one.
DelayDetected(originalTask, newStartDate) ==
    StrGreater(addDays(newStartDate, originalTask.duration),
               addDays(originalTask.startDate, originalTask.duration))

\* The window's mouseup listener, registered while isDragging.
handleMouseUp ==
    /\ draggingState.isDragging
    /\ lastEvent' = Event("mouseUp")
    /\ IF draggingState.task # Null /\ daysDelta # 0
       THEN LET originalTask == draggingState.task
                newStartDate == addDays(draggingState.startDate, daysDelta)
            IN  IF DelayDetected(originalTask, newStartDate)
                THEN /\ pendingDelayTask' =
                            [task |-> [originalTask EXCEPT !.startDate = newStartDate],
                             newDate |-> newStartDate]
                     /\ showDelayModal' = TRUE
                     /\ UNCHANGED <<localProject, preDragTasks>>
                ELSE /\ localProject' =
                            [localProject EXCEPT
                                !.tasks = WithStartDate(@, originalTask.id, newStartDate)]
                     /\ preDragTasks' = <<>>
                     /\ UNCHANGED <<pendingDelayTask, showDelayModal>>
       ELSE /\ preDragTasks' = <<>>
            /\ UNCHANGED <<localProject, pendingDelayTask, showDelayModal>>
    /\ draggingState' = NoDrag
    /\ tempDragOffsetPx' = 0
    /\ UNCHANGED <<loginData, viewMode, colWidth, showTeamModal, delayReasonInput>>
    /\ UNCHANGED PanelState

---------------------------------------------------------------------------
(* The delay-reason modal, rendered while showDelayModal.                   *)

\* onChange of the textarea.
setDelayReasonInput(text) ==
    /\ showDelayModal
    /\ delayReasonInput' = text
    /\ lastEvent' = Event("typeReason")
    /\ UNCHANGED <<localProject, loginData, viewMode, colWidth, showTeamModal,
                   showDelayModal, pendingDelayTask, draggingState, tempDragOffsetPx,
                   preDragTasks>>
    /\ UNCHANGED PanelState

\* The confirm button.
confirmDelay ==
    /\ showDelayModal
    /\ lastEvent' = Event("confirmDelay")
    /\ IF Trim(delayReasonInput) = <<>> \/ pendingDelayTask = Null
       THEN UNCHANGED <<localProject, showDelayModal, pendingDelayTask,
                        delayReasonInput, preDragTasks>>
       ELSE /\ localProject' =
                   [localProject EXCEPT
                       !.tasks = WithDelay(@, pendingDelayTask.task.id,
                                           pendingDelayTask.newDate, delayReasonInput)]
            /\ showDelayModal' = FALSE
            /\ pendingDelayTask' = Null
            /\ delayReasonInput' = <<>>
            /\ preDragTasks' = <<>>
    /\ UNCHANGED <<loginData, viewMode, colWidth, showTeamModal, draggingState,
                   tempDragOffsetPx>>
    /\ UNCHANGED PanelState

\* Mutant: a cancel that keeps the candidate date.
cancelDelay_Commits ==
    /\ showDelayModal
    /\ showDelayModal' = FALSE
    /\ pendingDelayTask' = Null
    /\ preDragTasks' = <<>>
    /\ lastEvent' = Event("cancelDelay")
    /\ localProject' =
          IF pendingDelayTask = Null THEN localProject
          ELSE [localProject EXCEPT
                   !.tasks = WithStartDate(@, pendingDelayTask.task.id,
                                           pendingDelayTask.newDate)]
    /\ UNCHANGED <<loginData, viewMode, colWidth, showTeamModal,
                   delayReasonInput, draggingState, tempDragOffsetPx>>
    /\ UNCHANGED PanelState

\* The cancel button.
cancelDelay ==
    /\ showDelayModal
    /\ showDelayModal' = FALSE
    /\ pendingDelayTask' = Null
    /\ preDragTasks' = <<>>
    /\ lastEvent' = Event("cancelDelay")
    /\ UNCHANGED <<localProject, loginData, viewMode, colWidth, showTeamModal,
                   delayReasonInput, draggingState, tempDragOffsetPx>>
    /\ UNCHANGED PanelState

---------------------------------------------------------------------------
(* Persistence: the save button hands the local project to onUpdate.        *)

\* Mutant: the project saved as drawn, the dragged bar at its live position.
saveWBS_AsDrawn ==
    /\ lastEvent' =
          [name |-> "onUpdate",
           project |->
              IF draggingState.isDragging
              THEN [localProject EXCEPT
                       !.tasks = WithStartDate(@, draggingState.task.id,
                                     addDays(draggingState.startDate, daysDelta))]
              ELSE localProject]
    /\ UNCHANGED <<localProject, loginData, viewMode, colWidth, showTeamModal,
                   showDelayModal, pendingDelayTask, delayReasonInput, draggingState,
                   tempDragOffsetPx, preDragTasks>>
    /\ UNCHANGED PanelState

saveWBS ==
    /\ lastEvent' = [name |-> "onUpdate", project |-> localProject]
    /\ UNCHANGED <<localProject, loginData, viewMode, colWidth, showTeamModal,
                   showDelayModal, pendingDelayTask, delayReasonInput, draggingState,
                   tempDragOffsetPx, preDragTasks>>
    /\ UNCHANGED PanelState

---------------------------------------------------------------------------
(* Zoom.                                                                    *)

Max(a, b) == IF a >= b THEN a ELSE b
Min(a, b) == IF a <= b THEN a ELSE b
Abs(a) == IF a >= 0 THEN a ELSE -a

\* The range manual zoom keeps the column width in.
MinColWidth == 10
MaxColWidth == 200

PresetWidth(mode) == IF mode = "day" THEN 40 ELSE IF mode = "week" THEN 20 ELSE 7

ZoomFrame == <<localProject, loginData, showTeamModal, showDelayModal,
               pendingDelayTask, delayReasonInput, draggingState, tempDragOffsetPx,
               preDragTasks, PanelState>>

\* The day / week / month buttons.
setViewModePreset(mode) ==
    /\ viewMode' = mode
    /\ colWidth' = PresetWidth(mode)
    /\ lastEvent' = Event("preset")
    /\ UNCHANGED ZoomFrame

ZoomOutWidth(c) == Max(MinColWidth, c - 5)
ZoomInWidth(c) == Min(MaxColWidth, c + 5)
WheelWidth(prev, deltaY) ==
    Max(MinColWidth, Min(MaxColWidth, prev + (IF deltaY > 0 THEN -2 ELSE 2)))

zoomOutButton ==
    /\ colWidth' = ZoomOutWidth(colWidth)
    /\ viewMode' = "custom"
    /\ lastEvent' = Event("zoomOut")
    /\ UNCHANGED ZoomFrame

\* Mutant: a zoom-in that leaves the view mode as it was.
zoomInButton_KeepsMode ==
    /\ colWidth' = ZoomInWidth(colWidth)
    /\ lastEvent' = Event("zoomIn")
    /\ UNCHANGED <<viewMode, ZoomFrame>>

zoomInButton ==
    /\ colWidth' = ZoomInWidth(colWidth)
    /\ viewMode' = "custom"
    /\ lastEvent' = Event("zoomIn")
    /\ UNCHANGED ZoomFrame

\* The wheel listener of the chart body.
handleWheel(ctrlKey, deltaY) ==
    /\ ~ModalBackdropShown
    /\ lastEvent' = Event("wheel")
    /\ IF ctrlKey
       THEN /\ colWidth' = WheelWidth(colWidth, deltaY)
            /\ viewMode' = "custom"
       ELSE UNCHANGED <<colWidth, viewMode>>
    /\ UNCHANGED ZoomFrame

---------------------------------------------------------------------------
(* The team modal.                                                          *)

TeamFrame == <<loginData, viewMode, colWidth, showDelayModal, pendingDelayTask,
               delayReasonInput, draggingState, tempDragOffsetPx, preDragTasks,
               PanelState>>

openTeamModal ==
    /\ showTeamModal' = TRUE
    /\ lastEvent' = Event("openTeam")
    /\ UNCHANGED <<localProject>>
    /\ UNCHANGED TeamFrame

closeTeamModal ==
    /\ showTeamModal
    /\ showTeamModal' = FALSE
    /\ lastEvent' = Event("closeTeam")
    /\ UNCHANGED <<localProject>>
    /\ UNCHANGED TeamFrame

toggleProjectEngineer(eng) ==
    /\ showTeamModal
    /\ localProject' =
          [localProject EXCEPT
              !.engineers = IF eng \in @ THEN @ \ {eng} ELSE @ \cup {eng}]
    /\ lastEvent' = Event("toggleEngineer")
    /\ UNCHANGED showTeamModal
    /\ UNCHANGED TeamFrame

\* The crown button, rendered for the members of the project.
togglePM(engName) ==
    /\ showTeamModal
    /\ engName \in localProject.engineers
    /\ localProject' =
          [localProject EXCEPT
              !.manager = IF @ = engName THEN NoManager ELSE engName]
    /\ lastEvent' = Event("togglePM")
    /\ UNCHANGED showTeamModal
    /\ UNCHANGED TeamFrame

---------------------------------------------------------------------------
(* The task-edit modal, rendered while showEditModal.                       *)

EditFrame == <<logs, loginData, viewMode, colWidth, showTeamModal, showWBSModal,
               statsWeeklyDate, showDelayModal, pendingDelayTask, delayReasonInput,
               draggingState, tempDragOffsetPx, preDragTasks>>

\* The ids of a task list.
TaskIds(tasks) == {tasks[k].id : k \in 1 .. Len(tasks)}

\* The add-task button, rendered for those who may edit tasks.
handleAddTask ==
    /\ canEditTasks
    /\ Len(localProject.tasks) < MaxTasks
    /\ editingTask' =
          [id |-> NoId, title |-> "",
           category |-> (IF Len(localProject.wbs) > 0 THEN localProject.wbs[1].name ELSE ""),
           assignee |-> "",
           startDate |-> (IF localProject.startDate # EmptyDate
                          THEN localProject.startDate ELSE todayDate),
           duration |-> 1, progress |-> 0, delayReason |-> <<>>]
    /\ showEditModal' = TRUE
    /\ lastEvent' = Event("addTask")
    /\ UNCHANGED localProject
    /\ UNCHANGED EditFrame
    /\ UNCHANGED deletedIds

\* The task's row is shown: under a category of its name that is not collapsed.
RowShown(task) ==
    \E k \in 1 .. Len(localProject.wbs) :
        localProject.wbs[k].name = task.category /\ ~localProject.wbs[k].collapsed

\* onClick of the label of task i's row.
openEditTask(i) ==
    /\ i \in TaskIndexes
    /\ RowShown(localProject.tasks[i])
    /\ ~ModalBackdropShown
    /\ editingTask' = localProject.tasks[i]
    /\ showEditModal' = TRUE
    /\ lastEvent' = Event("openEdit")
    /\ UNCHANGED localProject
    /\ UNCHANGED EditFrame
    /\ UNCHANGED deletedIds

\* onChange of a field of the modal: setEditingTask({...editingTask, field: value}).
setEditingTask(field, value) ==
    /\ showEditModal
    /\ editingTask' = [editingTask EXCEPT ![field] = value]
    /\ lastEvent' = Event("editField")
    /\ UNCHANGED <<localProject, showEditModal>>
    /\ UNCHANGED EditFrame
    /\ UNCHANGED deletedIds

\* The modal's cancel button.
cancelEdit ==
    /\ showEditModal
    /\ showEditModal' = FALSE
    /\ lastEvent' = Event("cancelEdit")
    /\ UNCHANGED <<localProject, editingTask>>
    /\ UNCHANGED EditFrame
    /\ UNCHANGED deletedIds

\* findIndex: the first position whose task carries the id, 0 for none.
FindIndex(tasks, id) ==
    IF \E k \in 1 .. Len(tasks) : tasks[k].id = id
    THEN CHOOSE k \in 1 .. Len(tasks) :
            tasks[k].id = id /\ \A j \in 1 .. k - 1 : tasks[j].id # id
    ELSE 0

\* The task pushed for an editing task with no id.
NewTask(finalTask, now) ==
    [finalTask EXCEPT
        !.id = now,
        !.title = IF @ = "" THEN "new task" ELSE @,
        !.startDate = IF @ = EmptyDate THEN todayDate ELSE @,
        !.duration = IF @ = 0 THEN 1 ELSE @]

\* The modal's confirm button; `now` is the reading of Date.now().
saveTask(now) ==
    /\ showEditModal
    /\ LET finalTask ==
               IF editingTask.category = "" /\ Len(localProject.wbs) > 0
               THEN [editingTask EXCEPT !.category = localProject.wbs[1].name]
               ELSE editingTask
           idx == FindIndex(localProject.tasks, finalTask.id)
           newTasks ==
               IF finalTask.id # NoId
               THEN IF idx # 0 THEN [localProject.tasks EXCEPT ![idx] = finalTask]
                    ELSE localProject.tasks
               ELSE Append(localProject.tasks, NewTask(finalTask, now))
       IN  localProject' = [localProject EXCEPT !.tasks = newTasks]
    /\ showEditModal' = FALSE
    /\ lastEvent' = Event("saveTask")
    /\ UNCHANGED editingTask
    /\ UNCHANGED EditFrame
    /\ UNCHANGED deletedIds

\* The modal's delete button, rendered for a task that has an id; `confirmed`
\* is the answer to window.confirm.
deleteTask(confirmed) ==
    /\ showEditModal
    /\ editingTask.id # NoId
    /\ lastEvent' = Event("deleteTask")
    /\ IF ~confirmed
       THEN UNCHANGED <<localProject, showEditModal, deletedIds>>
       ELSE /\ localProject' =
                   [localProject EXCEPT
                       !.tasks = SelectSeq(@, LAMBDA t : t.id # editingTask.id)]
            /\ showEditModal' = FALSE
            /\ deletedIds' = deletedIds \cup ({editingTask.id} \cap TaskIds(localProject.tasks))
    /\ UNCHANGED editingTask
    /\ UNCHANGED EditFrame

---------------------------------------------------------------------------
(* The WBS categories: the modal that edits them, and collapsing.           *)

WBSFrame == <<logs, loginData, viewMode, colWidth, showEditModal, showTeamModal, editingTask,
              statsWeeklyDate, showDelayModal, pendingDelayTask, delayReasonInput,
              draggingState, tempDragOffsetPx, deletedIds, preDragTasks>>

WBSIndexes == 1 .. Len(localProject.wbs)

\* The edit button of the WBS field.
openWBSModal ==
    /\ showWBSModal' = TRUE
    /\ lastEvent' = Event("openWBS")
    /\ UNCHANGED localProject
    /\ UNCHANGED WBSFrame

\* The modal's done button.
closeWBSModal ==
    /\ showWBSModal
    /\ showWBSModal' = FALSE
    /\ lastEvent' = Event("closeWBS")
    /\ UNCHANGED localProject
    /\ UNCHANGED WBSFrame

\* The tasks of the old category name moved to the new one.
RenamedTasks(tasks, oldName, newName) ==
    [k \in 1 .. Len(tasks) |->
        IF tasks[k].category = oldName THEN [tasks[k] EXCEPT !.category = newName]
        ELSE tasks[k]]

\* onChange of the name field of category i.
renameWBS(i, newName) ==
    /\ showWBSModal
    /\ i \in WBSIndexes
    /\ newName # localProject.wbs[i].name
    /\ localProject' =
          [localProject EXCEPT
              !.wbs = [@ EXCEPT ![i] = [@ EXCEPT !.name = newName]],
              !.tasks = RenamedTasks(@, localProject.wbs[i].name, newName)]
    /\ lastEvent' = Event("renameWBS")
    /\ UNCHANGED showWBSModal
    /\ UNCHANGED WBSFrame

\* The trash button of category i: the category goes, its tasks stay.
deleteWBS(i) ==
    /\ showWBSModal
    /\ i \in WBSIndexes
    /\ localProject' =
          [localProject EXCEPT
              !.wbs = SubSeq(@, 1, i - 1) \o SubSeq(@, i + 1, Len(@))]
    /\ lastEvent' = Event("deleteWBS")
    /\ UNCHANGED showWBSModal
    /\ UNCHANGED WBSFrame

\* The add-category button; `now` is the reading of Date.now().
addWBS(now) ==
    /\ showWBSModal
    /\ Len(localProject.wbs) < MaxCategories
    /\ localProject' =
          [localProject EXCEPT
              !.wbs = Append(@, [id |-> now, name |-> "new phase", collapsed |-> FALSE])]
    /\ lastEvent' = Event("addWBS")
    /\ UNCHANGED showWBSModal
    /\ UNCHANGED WBSFrame

\* The categories with those of the id collapsed or expanded.
ToggledWBS(wbs, id) ==
    [k \in 1 .. Len(wbs) |->
        IF wbs[k].id = id THEN [wbs[k] EXCEPT !.collapsed = ~wbs[k].collapsed]
        ELSE wbs[k]]

\* onClick of the header row of category i: collapse or expand it.
toggleWBS(i) ==
    /\ i \in WBSIndexes
    /\ ~ModalBackdropShown
    /\ localProject' =
          [localProject EXCEPT !.wbs = ToggledWBS(@, localProject.wbs[i].id)]
    /\ lastEvent' = Event("toggleWBS")
    /\ UNCHANGED showWBSModal
    /\ UNCHANGED WBSFrame

\* The expand-all and collapse-all buttons.
toggleAllWBS(collapse) ==
    /\ localProject' =
          [localProject EXCEPT
              !.wbs = [k \in 1 .. Len(localProject.wbs) |->
                          [localProject.wbs[k] EXCEPT !.collapsed = collapse]]]
    /\ lastEvent' = Event("toggleAllWBS")
    /\ UNCHANGED showWBSModal
    /\ UNCHANGED WBSFrame

\* The tasks listed under a category name, by position.
ListedUnder(tasks, name) == {k \in 1 .. Len(tasks) : tasks[k].category = name}

---------------------------------------------------------------------------
(* The rollup of a collapsed category and the bar the render draws for it.  *)

\* Days of context the grid shows before the project's start.
START_OFFSET == 15

\* The first day of the grid, as the render places bars.
renderStart ==
    addDays(IF localProject.startDate # EmptyDate THEN localProject.startDate ELSE todayDate,
            -START_OFFSET)

\* Mutant: a task counts as valid whatever its duration.
IsValidTask_AnyDuration(t) == t.startDate # EmptyDate

\* The filter of getWBSSummary: t.startDate && t.duration > 0.
IsValidTask(t) == t.startDate # EmptyDate /\ t.duration > 0

\* sort((a, b) => a.startDate.localeCompare(b.startDate)): ascending and stable.
RECURSIVE InsertByStart(_, _)
InsertByStart(t, sorted) ==
    IF sorted = <<>> THEN <<t>>
    ELSE IF StrGreater(Head(sorted).startDate, t.startDate) THEN <<t>> \o sorted
    ELSE <<Head(sorted)>> \o InsertByStart(t, Tail(sorted))

RECURSIVE SortByStart(_)
SortByStart(tasks) ==
    IF tasks = <<>> THEN <<>>
    ELSE InsertByStart(tasks[Len(tasks)], SortByStart(SubSeq(tasks, 1, Len(tasks) - 1)))

\* Mutant: every task weighs the same.
RECURSIVE RollupOver_Unweighted(_, _)
RollupOver_Unweighted(validTasks, acc) ==
    IF validTasks = <<>> THEN acc
    ELSE LET t == Head(validTasks)
             end == addDays(t.startDate, t.duration)
         IN  RollupOver_Unweighted(Tail(validTasks),
                [minStart |-> IF StrGreater(acc.minStart, t.startDate)
                              THEN t.startDate ELSE acc.minStart,
                 maxEnd |-> IF StrGreater(end, acc.maxEnd) THEN end ELSE acc.maxEnd,
                 totalDuration |-> acc.totalDuration + 1,
                 weightedProgress |-> acc.weightedProgress + t.progress])

\* The forEach of getWBSSummary over the valid tasks.
RECURSIVE RollupOver(_, _)
RollupOver(validTasks, acc) ==
    IF validTasks = <<>> THEN acc
    ELSE LET t == Head(validTasks)
             end == addDays(t.startDate, t.duration)
         IN  RollupOver(Tail(validTasks),
                [minStart |-> IF StrGreater(acc.minStart, t.startDate)
                              THEN t.startDate ELSE acc.minStart,
                 maxEnd |-> IF StrGreater(end, acc.maxEnd) THEN end ELSE acc.maxEnd,
                 totalDuration |-> acc.totalDuration + t.duration,
                 weightedProgress |-> acc.weightedProgress + t.duration * t.progress])

getWBSSummary(category) ==
    LET tasks == SelectSeq(localProject.tasks, LAMBDA t : t.category = category)
        validTasks == SortByStart(SelectSeq(tasks, IsValidTask))
    IN  IF Len(tasks) = 0 THEN Null
        ELSE IF Len(validTasks) = 0 THEN Null
        ELSE LET acc == RollupOver(validTasks,
                            [minStart |-> validTasks[1].startDate,
                             maxEnd |-> addDays(validTasks[1].startDate,
                                                validTasks[1].duration),
                             totalDuration |-> 0, weightedProgress |-> 0])
             IN  [start |-> acc.minStart, end |-> acc.maxEnd,
                  progress |-> IF acc.totalDuration = 0 THEN 0
                               ELSE MathRound(acc.weightedProgress, acc.totalDuration)]

\* The summary bar the render draws in the header row of category i; Null for none.
SummaryBar(i) ==
    LET cat == localProject.wbs[i]
        summary == getWBSSummary(cat.name)
    IN  IF ~cat.collapsed THEN Null
        ELSE IF summary = Null THEN Null
        ELSE [left |-> getDaysDiff(renderStart, summary.start) * colWidth,
              width |-> getDaysDiff(summary.start, summary.end) * colWidth,
              progress |-> summary.progress]

---------------------------------------------------------------------------
(* The render window: the day grid and the today line.                      *)

\* Days of context after the effective end; the cap and the floor of the grid.
END_BUFFER == 30
MAX_RENDER_DAYS == 3650
MIN_RENDER_DAYS == 30
\* The value of todayOffset that draws no line.
NoTodayLine == -1

\* localProject.startDate || toLocalISOString()
validStart == IF localProject.startDate # EmptyDate THEN localProject.startDate ELSE todayDate

\* Mutant: the tasks left out of the end candidates.
endCandidates_ProjectOnly ==
    {validStart} \cup (IF localProject.endDate # EmptyDate THEN {localProject.endDate} ELSE {})

\* The dates the grid must reach: the start, the end date if set, and the end
\* of every dated task, a duration of 0 counting as 1.
endCandidates ==
    {validStart}
    \cup (IF localProject.endDate # EmptyDate THEN {localProject.endDate} ELSE {})
    \cup {addDays(localProject.tasks[k].startDate,
                   IF localProject.tasks[k].duration = 0 THEN 1
                   ELSE localProject.tasks[k].duration) :
             k \in {j \in TaskIndexes : localProject.tasks[j].startDate # EmptyDate}}

\* endCandidates.sort() and its last element.
effectiveEndDate ==
    CHOOSE d \in endCandidates : \A e \in endCandidates : ~StrGreater(e, d)

\* renderDays.length
renderDayCount ==
    LET duration == getDaysDiff(validStart, effectiveEndDate) + START_OFFSET + END_BUFFER
    IN  IF duration > MAX_RENDER_DAYS THEN MAX_RENDER_DAYS
        ELSE IF duration < MIN_RENDER_DAYS THEN MIN_RENDER_DAYS
        ELSE duration

\* renderDays[i].dateStr, i counted from 0.
renderDay(i) == toLocalISOString(parseLocalDate(addDays(validStart, -START_OFFSET)) + i)

todayDiff == getDaysDiff(renderStart, todayDate)
todayOffset == IF todayDiff >= 0 THEN todayDiff * colWidth ELSE NoTodayLine

totalContentWidth == renderDayCount * colWidth

\* The left edge of a task's bar; the bar being dragged follows the pointer.
getTaskLeft(task) ==
    getDaysDiff(renderStart, task.startDate) * colWidth
       + (IF draggingState.isDragging /\ draggingState.task.id = task.id
          THEN tempDragOffsetPx ELSE 0)

\* The width of a task's bar: Math.max(colWidth, task.duration * colWidth)
TaskBarWidth(task) == Max(colWidth, task.duration * colWidth)

WindowFrame == <<loginData, viewMode, colWidth, showTeamModal, showDelayModal,
                 pendingDelayTask, delayReasonInput, draggingState, tempDragOffsetPx,
                 preDragTasks, PanelState>>

\* onChange of the project's start date field.
setProjectStartDate(date) ==
    /\ localProject' = [localProject EXCEPT !.startDate = date]
    /\ lastEvent' = Event("setStartDate")
    /\ UNCHANGED WindowFrame

\* onChange of the project's end date field.
setProjectEndDate(date) ==
    /\ localProject' = [localProject EXCEPT !.endDate = date]
    /\ lastEvent' = Event("setEndDate")
    /\ UNCHANGED WindowFrame

---------------------------------------------------------------------------
(* The weekly labor panel: the week of the reference date.                  *)

\* Days picked as the weekly panel's reference date: a winter that crosses a
\* new year and a leap day, and June 2025.
ReferenceDays ==
    (DaysFromCivil(<<2023, 12, 20>>) .. DaysFromCivil(<<2024, 3, 10>>))
    \cup (DaysFromCivil(<<2025, 6, 1>>) .. DaysFromCivil(<<2025, 6, 30>>))

\* Date.prototype.getDay of a day number: 0 is Sunday; 1970-01-01 was a Thursday.
getDay(date) == (date + 4) % 7
\* Date.prototype.getDate
getDate(date) == CivilFromDays(date)[3]
\* Date.prototype.setDate: day n of the date's month, carrying over at either end.
setDate(date, n) == DaysFromCivil(<<CivilFromDays(date)[1], CivilFromDays(date)[2], n>>)

\* Mutant: Sunday treated as the other days.
MondayShift_SundayAhead(day) == 1

\* day === 0 ? -6 : 1
MondayShift(day) == IF day = 0 THEN -6 ELSE 1

\* weekDays[i].dateStr, i from 1 to 7.
weekDays ==
    LET baseDate == parseLocalDate(statsWeeklyDate)
        day == getDay(baseDate)
        diff == getDate(baseDate) - day + MondayShift(day)
        monday == setDate(baseDate, diff)
    IN  [i \in 1 .. 7 |-> toLocalISOString(setDate(monday, getDate(monday) + (i - 1)))]

\* onChange of the reference date field.
setStatsWeeklyDate(date) ==
    /\ statsWeeklyDate' = date
    /\ lastEvent' = Event("setStatsDate")
    /\ UNCHANGED <<localProject, logs, loginData, viewMode, colWidth, showEditModal,
                   showTeamModal, showWBSModal, editingTask, showDelayModal,
                   pendingDelayTask, delayReasonInput, draggingState, tempDragOffsetPx,
                   deletedIds, preDragTasks>>

---------------------------------------------------------------------------
(* The weekly labor panel: the log records of the week.                     *)

\* The longest list of log records the panel is handed.
MaxLogs == 2

\* The characters of the texts, with their UTF-16 code units.
CharCode(c) ==
    CASE c = " " -> 32 [] c = "," -> 44 [] c = "-" -> 45 [] c = "/" -> 47
      [] c = "0" -> 48 [] c = "1" -> 49 [] c = "2" -> 50 [] c = "3" -> 51
      [] c = "4" -> 52 [] c = "5" -> 53 [] c = "6" -> 54 [] c = "7" -> 55
      [] c = "8" -> 56 [] c = "9" -> 57
      [] c = "A" -> 65 [] c = "P" -> 80
      [] c = "a" -> 97 [] c = "b" -> 98 [] c = "p" -> 112 [] c = "x" -> 120

Digit(n) == <<"0", "1", "2", "3", "4", "5", "6", "7", "8", "9">>[n + 1]

\* The string toLocalISOString returns for a date: `${year}-${month}-${day}`,
\* month and day padded to two digits.
DateStr(date) ==
    <<Digit(date[1] \div 1000), Digit((date[1] \div 100) % 10),
      Digit((date[1] \div 10) % 10), Digit(date[1] % 10), "-",
      Digit(date[2] \div 10), Digit(date[2] % 10), "-",
      Digit(date[3] \div 10), Digit(date[3] % 10)>>

\* a < b on two strings: by the first code unit that differs, a proper prefix
\* being the smaller.
RECURSIVE StrLess(_, _)
StrLess(a, b) ==
    IF b = <<>> THEN FALSE
    ELSE IF a = <<>> THEN TRUE
    ELSE IF Head(a) # Head(b) THEN CharCode(Head(a)) < CharCode(Head(b))
    ELSE StrLess(Tail(a), Tail(b))

\* Mutant: a comparison that leaves the letters' case alone.
toLowerCase_KeepCase(s) == s

\* String.prototype.toLowerCase
toLowerCase(s) ==
    [k \in DOMAIN s |-> CASE s[k] = "A" -> "a" [] s[k] = "P" -> "p" [] OTHER -> s[k]]

\* replace(/\//g, '-')
SlashesToDashes(s) == [k \in DOMAIN s |-> IF s[k] = "/" THEN "-" ELSE s[k]]

\* [\s,] of the split pattern.
IsSeparator(c) == IsSpace(c) \/ c = ","

\* split(/[\s,]+/).filter(Boolean), as the set of its tokens: the maximal runs
\* of characters that are not separators.
Tokens(s) ==
    { SubSeq(s, i, j) : <<i, j>> \in
        { r \in (DOMAIN s) \X (DOMAIN s) :
            /\ r[1] <= r[2]
            /\ \A k \in r[1] .. r[2] : ~IsSeparator(s[k])
            /\ r[1] = 1 \/ IsSeparator(s[r[1] - 1])
            /\ r[2] = Len(s) \/ IsSeparator(s[r[2] + 1]) } }

targetId == toLowerCase(Trim(localProject.id))
targetName == toLowerCase(Trim(localProject.name))
projectTokens == Tokens(toLowerCase(targetId \o <<" ">> \o targetName))

\* Mutant: a window with no upper end.
InRange_NoUpperEnd(logDate) == ~StrLess(logDate, DateStr(weekDays[1]))

\* not (logDate < days[0] || logDate > days[6])
InRange(logDate) ==
    ~StrLess(logDate, DateStr(weekDays[1])) /\ ~StrLess(DateStr(weekDays[7]), logDate)

\* The filter of rangeLogs.
InRangeLogs(l) ==
    /\ l.projectId # <<>>
    /\ InRange(SlashesToDashes(l.date))
    /\ \/ toLowerCase(l.projectId) = targetId
       \/ \E token \in Tokens(toLowerCase(l.projectId)) : token \in projectTokens
       \/ \E token \in projectTokens : token \in Tokens(toLowerCase(l.projectId))

\* l.engineer || '未指定'
engName(l) == IF l.engineer = "" THEN "unassigned" ELSE l.engineer
dateKey(l) == SlashesToDashes(l.date)

RECURSIVE SumHours(_)
SumHours(positions) ==
    IF positions = {} THEN 0
    ELSE LET k == CHOOSE q \in positions : TRUE
         IN  logs[k].hours + SumHours(positions \ {k})

\* grouped: for each engineer of rangeLogs, the hours under each date key.
weeklyStatsData ==
    LET rangeLogs == {k \in DOMAIN logs : InRangeLogs(logs[k])}
    IN  [eng \in {engName(logs[k]) : k \in rangeLogs} |->
            [key \in {dateKey(logs[k]) : k \in {q \in rangeLogs : engName(logs[q]) = eng}} |->
                SumHours({k \in rangeLogs :
                             engName(logs[k]) = eng /\ dateKey(logs[k]) = key})]]

\* The cell under weekDays[i] of the row of an engineer's days: the hours,
\* "-" (here 0) for none.
StatsCell(days, i) ==
    IF DateStr(weekDays[i]) \in DOMAIN days /\ days[DateStr(weekDays[i])] # 0
    THEN days[DateStr(weekDays[i])] ELSE 0

RECURSIVE SumValues(_, _)
SumValues(days, keys) ==
    IF keys = {} THEN 0
    ELSE LET key == CHOOSE q \in keys : TRUE
         IN  days[key] + SumValues(days, keys \ {key})

\* The last cell of an engineer's row: Object.values(days).reduce((a, b) => a + b, 0)
StatsRowTotal(days) == SumValues(days, DOMAIN days)

\* The log records handed in: dates written with dashes or slashes, padded or
\* not, inside and outside the week of 2025-06-12; project ids that name the
\* project by its id, by its name, among other words, or not at all.
Log(date, engineer, projectId, hours) ==
    [date |-> date, engineer |-> engineer, projectId |-> projectId, hours |-> hours]

LogDates ==
    { DateStr(<<2025, 6, 10>>),
      <<"2", "0", "2", "5", "/", "0", "6", "/", "1", "0">>,
      <<"2", "0", "2", "5", "/", "6", "/", "1", "0">>,
      DateStr(<<2025, 6, 16>>) }

LogProjectIds ==
    { <<"p", "1">>, <<"x", ",", "P", "1">>, <<" ", "a", "b", " ">>,
      <<"p", "1", "2">>, <<>>, <<" ">> }

LogShapes ==
    {Log(d, "bob", id, 1) :
        d \in {DateStr(<<2025, 6, 10>>), <<"2", "0", "2", "5", "/", "0", "6", "/", "1", "0">>},
        id \in LogProjectIds}
    \cup {Log(d, eng, <<"P", "1">>, 2) : d \in LogDates, eng \in {"bob", ""}}

StatsReferenceDates == {<<2025, 6, 12>>, <<2025, 6, 15>>, <<2025, 6, 16>>}

---------------------------------------------------------------------------
(* Specifications.                                                          *)

DragNext ==
    \/ \E i \in TaskIndexes, b \in Buttons, x \in StartXs : handleMouseDown(i, b, x)
    \/ \E o \in DragOffsets : handleMouseMove(draggingState.startX + o)
    \/ handleMouseUp
    \/ \E text \in ReasonTexts : setDelayReasonInput(text)
    \/ confirmDelay
    \/ cancelDelay
    \/ saveWBS

ZoomNext ==
    \/ \E mode \in {"day", "week", "month"} : setViewModePreset(mode)
    \/ zoomOutButton
    \/ zoomInButton
    \/ \E ctrlKey \in BOOLEAN, deltaY \in {-100, 100} : handleWheel(ctrlKey, deltaY)

TeamNext ==
    \/ openTeamModal
    \/ closeTeamModal
    \/ \E eng \in GlobalEngineers : toggleProjectEngineer(eng)
    \/ \E eng \in GlobalEngineers : togglePM(eng)

\* The drag protocol.
Next == DragNext

Spec == Init /\ [][Next]_vars

\* The drag protocol, with the team and its manager changing.
AuthNext == DragNext \/ TeamNext

SpecAuth == Init /\ [][AuthNext]_vars

\* The drag protocol at every column width zoom can leave: an administrator's
\* editor on a one-task project, after any zooming.
ZoomedWidths == (MinColWidth .. MaxColWidth) \cup {PresetWidth("week"), PresetWidth("month")}

ViewModeAt(w) ==
    IF w = PresetWidth("day") THEN "day"
    ELSE IF w = PresetWidth("week") THEN "week"
    ELSE IF w = PresetWidth("month") THEN "month" ELSE "custom"

InitWidths ==
    /\ localProject = Project(<<Task(1, BaseDate, 3)>>, NoManager)
    /\ loginData = [role |-> "Admin", user |-> "root"]
    /\ colWidth \in ZoomedWidths
    /\ viewMode = ViewModeAt(colWidth)
    /\ Mounted

SpecWidths == InitWidths /\ [][DragNext]_vars

\* Zoom alone.
SpecZoom == Init /\ [][ZoomNext]_vars

\* Task add, edit and delete on a one-task project.
EditNext ==
    \/ handleAddTask
    \/ \E i \in TaskIndexes : openEditTask(i)
    \/ \E input \in EditInputs : setEditingTask(input[1], input[2])
    \/ cancelEdit
    \/ \E now \in ClockReadings : saveTask(now)
    \/ \E confirmed \in BOOLEAN : deleteTask(confirmed)

InitEdit ==
    /\ localProject = Project(<<Task(1, BaseDate, 3)>>, NoManager)
    /\ loginData \in Logins
    /\ viewMode = "day"
    /\ colWidth = 40
    /\ Mounted

SpecEdit == InitEdit /\ [][EditNext]_vars

\* The WBS categories of a project with a task under each of two categories.
WBSNext ==
    \/ openWBSModal
    \/ closeWBSModal
    \/ \E i \in WBSIndexes, newName \in CategoryNames : renameWBS(i, newName)
    \/ \E i \in WBSIndexes : deleteWBS(i)
    \/ \E now \in ClockReadings : addWBS(now)
    \/ \E i \in WBSIndexes : toggleWBS(i)
    \/ \E collapse \in BOOLEAN : toggleAllWBS(collapse)

InitWBS ==
    /\ localProject =
          [Project(<<[Task(1, BaseDate, 3) EXCEPT !.category = "design"],
                     [Task(2, BaseDate, 1) EXCEPT !.category = "build"]>>, NoManager)
              EXCEPT !.wbs = <<WBSCategory(1, "design"), WBSCategory(2, "build")>>]
    /\ loginData \in Logins
    /\ viewMode = "day"
    /\ colWidth = 40
    /\ Mounted

SpecWBS == InitWBS /\ [][WBSNext]_vars

\* Rollups: categories collapsed and expanded over every short task list.
RollupTasks(shape) ==
    [k \in DOMAIN shape |->
        [Task(k, shape[k].startDate, shape[k].duration)
            EXCEPT !.category = shape[k].category, !.progress = shape[k].progress]]

RollupNext ==
    \/ \E i \in WBSIndexes : toggleWBS(i)
    \/ \E collapse \in BOOLEAN : toggleAllWBS(collapse)

InitRollup ==
    /\ \E n \in 0 .. MaxRollupTasks : \E shape \in [1 .. n -> RollupShapes] :
          localProject =
             [Project(RollupTasks(shape), NoManager)
                 EXCEPT !.startDate = <<2025, 1, 1>>,
                        !.wbs = <<WBSCategory(1, "phase"), WBSCategory(2, "other")>>]
    /\ loginData = [role |-> "Admin", user |-> "root"]
    /\ viewMode = "day"
    /\ colWidth = 40
    /\ Mounted

SpecRollup == InitRollup /\ [][RollupNext]_vars

\* The render window as the project's dates and the zoom preset change.
WindowTaskLists ==
    { <<>>,
      <<Task(1, BaseDate, 3), Task(2, EmptyDate, 1)>>,
      <<Task(1, <<2025, 3, 1>>, 5), Task(2, <<2025, 7, 1>>, 0)>> }

WindowNext ==
    \/ \E date \in ProjectDates : setProjectStartDate(date)
    \/ \E date \in ProjectDates : setProjectEndDate(date)
    \/ \E mode \in {"day", "week", "month"} : setViewModePreset(mode)

InitWindow ==
    /\ \E ts \in WindowTaskLists : localProject = Project(ts, NoManager)
    /\ loginData = [role |-> "Admin", user |-> "root"]
    /\ viewMode = "day"
    /\ colWidth = 40
    /\ Mounted

SpecWindow == InitWindow /\ [][WindowNext]_vars

\* The weekly panel as its reference date is picked or cleared.
WeekNext ==
    \E date \in {toLocalISOString(day) : day \in ReferenceDays} \cup {EmptyDate} :
        setStatsWeeklyDate(date)

SpecWeek == Init /\ [][WeekNext]_vars

\* The start dates picked in the task-edit modal's date field.
EditedStartDates == {<<2025, 1, 1>>}

\* The editor opened by a caller who is neither administrator nor manager of
\* the project: the drag protocol, the team modal, and the task-edit modal
\* opened from a task's row with its start date field.
UnprivilegedNext ==
    \/ DragNext
    \/ TeamNext
    \/ \E i \in TaskIndexes : openEditTask(i)
    \/ \E date \in EditedStartDates : setEditingTask("startDate", date)
    \/ cancelEdit
    \/ \E now \in ClockReadings : saveTask(now)

InitUnprivileged ==
    /\ \E mgr \in {NoManager} \cup GlobalEngineers :
          localProject = Project(<<Task(1, BaseDate, 3)>>, mgr)
    /\ loginData \in Logins
    /\ ~canEditTasks
    /\ viewMode = "day"
    /\ colWidth = 40
    /\ Mounted

SpecUnprivileged == InitUnprivileged /\ [][UnprivilegedNext]_vars

\* An administrator's editor on a one-task project: the drag protocol, and
\* the task-edit modal with its start date field.
ScheduleNext ==
    \/ DragNext
    \/ \E i \in TaskIndexes : openEditTask(i)
    \/ \E date \in EditedStartDates : setEditingTask("startDate", date)
    \/ cancelEdit
    \/ \E now \in ClockReadings : saveTask(now)

InitSchedule ==
    /\ localProject = Project(<<Task(1, BaseDate, 3)>>, NoManager)
    /\ loginData = [role |-> "Admin", user |-> "root"]
    /\ viewMode = "day"
    /\ colWidth = 40
    /\ Mounted

SpecSchedule == InitSchedule /\ [][ScheduleNext]_vars

\* The weekly panel over every short list of log records.
StatsNext == \E date \in StatsReferenceDates : setStatsWeeklyDate(date)

InitStats ==
    /\ localProject = Project(<<Task(1, BaseDate, 3)>>, NoManager)
    /\ \E n \in 0 .. MaxLogs : logs \in [1 .. n -> LogShapes]
    /\ loginData = [role |-> "Admin", user |-> "root"]
    /\ viewMode = "day"
    /\ colWidth = 40
    /\ MountedState

SpecStats == InitStats /\ [][StatsNext]_vars


---------------------------------------------------------------------------
(* Vocabulary of the properties.                                            *)

\* The step is a run of the named handler.
Ran(name) == lastEvent'.name = name

\* The editor's three states.
Dragging == draggingState.isDragging
PendingDelayConfirmation == pendingDelayTask # Null
Idle == ~draggingState.isDragging /\ pendingDelayTask = Null /\ ~showDelayModal

\* The caller is the administrator or the project's designated manager.
Authorized == loginData.role = "Admin" \/ localProject.manager = loginData.user

\* Calendar day numbers of the open session: the dragged task's original end,
\* and the start and end the drop proposes.
OriginalEndDay == parseLocalDate(draggingState.task.startDate) + draggingState.task.duration
CandidateStartDay == parseLocalDate(draggingState.startDate) + daysDelta
CandidateEndDay == CandidateStartDay + draggingState.task.duration

\* The tasks of a list that carry the id.
TasksWithId(tasks, id) == {tasks[k] : k \in {j \in 1 .. Len(tasks) : tasks[j].id = id}}

\* The text is empty or holds only white space.
Blank(text) == \A k \in 1 .. Len(text) : text[k] \in {" ", "\t", "\n", "\r"}

---------------------------------------------------------------------------
(* C1: a pointer-up whose rounded day delta puts the candidate end date     *)
(* after the task's original end date enters PendingDelayConfirmation with  *)
(* the candidate start date, the prompt open and the session closed, and    *)
(* leaves every task of the project as it was.                              *)
C1_DelayingDropAwaitsConfirmation ==
    [][ (Dragging /\ Ran("mouseUp") /\ daysDelta # 0 /\ CandidateEndDay > OriginalEndDay)
        => /\ pendingDelayTask' # Null
           /\ parseLocalDate(pendingDelayTask'.newDate) = CandidateStartDay
           /\ pendingDelayTask'.task.id = draggingState.task.id
           /\ pendingDelayTask'.task.startDate = pendingDelayTask'.newDate
           /\ showDelayModal'
           /\ ~draggingState'.isDragging
           /\ localProject'.tasks = localProject.tasks ]_vars

\* A drop that moved the end date later is waiting for its reason.
C1_Witness ==
    /\ lastEvent.name = "mouseUp"
    /\ pendingDelayTask # Null
    /\ showDelayModal
    /\ getDaysDiff(BaseDate, pendingDelayTask.newDate) = 1

(* C2: a pointer-up with a non-zero rounded day delta whose candidate end   *)
(* date is not after the original end date sets the dragged task's start    *)
(* date to the candidate at once and leaves the editor Idle, with no delay  *)
(* prompt.                                                                  *)
C2_EarlierDropCommitsAtOnce ==
    [][ (Dragging /\ Ran("mouseUp") /\ daysDelta # 0 /\ CandidateEndDay <= OriginalEndDay)
        => /\ TasksWithId(localProject'.tasks, draggingState.task.id) # {}
           /\ \A t \in TasksWithId(localProject'.tasks, draggingState.task.id) :
                  /\ t.startDate # EmptyDate
                  /\ parseLocalDate(t.startDate) = CandidateStartDay
           /\ pendingDelayTask' = Null
           /\ ~showDelayModal'
           /\ ~draggingState'.isDragging ]_vars

\* The first task was dropped a day earlier and the editor is Idle.
C2_Witness ==
    /\ lastEvent.name = "mouseUp"
    /\ Idle
    /\ localProject.tasks[1].startDate = <<2025, 1, 30>>

(* C3: confirmDelay with an empty or whitespace-only reason changes no task *)
(* and leaves the pending candidate and the open prompt as they were.       *)
C3_BlankReasonIsRejected ==
    [][ (Ran("confirmDelay") /\ Blank(delayReasonInput))
        => /\ localProject' = localProject
           /\ pendingDelayTask' = pendingDelayTask
           /\ showDelayModal' = showDelayModal
           /\ showDelayModal' ]_vars

\* A confirmation with a whitespace-only reason was turned away.
C3_Witness ==
    /\ lastEvent.name = "confirmDelay"
    /\ delayReasonInput = <<" ", "\n">>
    /\ PendingDelayConfirmation
    /\ showDelayModal

(* C4 as stated: from PendingDelayConfirmation, confirmDelay with a         *)
(* non-empty reason commits the candidate start date and the reason, clears *)
(* the pending candidate and returns the editor to Idle.                    *)
C4_NonEmptyReasonCommits ==
    [][ (PendingDelayConfirmation /\ Ran("confirmDelay") /\ delayReasonInput # <<>>)
        => /\ \A t \in TasksWithId(localProject'.tasks, pendingDelayTask.task.id) :
                  t.startDate = pendingDelayTask.newDate /\ t.delayReason = delayReasonInput
           /\ pendingDelayTask' = Null
           /\ ~showDelayModal'
           /\ ~draggingState'.isDragging ]_vars

(* C4, amended: from PendingDelayConfirmation, confirmDelay with a reason   *)
(* that is not empty or whitespace-only sets the pending task's start date  *)
(* to the candidate and its delayReason to the reason as typed, clears the  *)
(* pending candidate and returns the editor to Idle.                        *)
C4_ReasonedConfirmCommits ==
    [][ (PendingDelayConfirmation /\ Ran("confirmDelay") /\ ~Blank(delayReasonInput))
        => /\ TasksWithId(localProject'.tasks, pendingDelayTask.task.id) # {}
           /\ \A t \in TasksWithId(localProject'.tasks, pendingDelayTask.task.id) :
                  t.startDate = pendingDelayTask.newDate /\ t.delayReason = delayReasonInput
           /\ pendingDelayTask' = Null
           /\ ~showDelayModal'
           /\ ~draggingState'.isDragging ]_vars

\* A delay was confirmed: the first task starts a day later and carries the reason.
C4_Witness ==
    /\ lastEvent.name = "confirmDelay"
    /\ Idle
    /\ localProject.tasks[1].startDate = <<2025, 2, 1>>
    /\ localProject.tasks[1].delayReason = <<" ", "r">>

(* C5: cancelling from PendingDelayConfirmation returns the editor to Idle  *)
(* with the dragged task, every field of it, as it was when the drag began. *)
C5_CancelRestoresTask ==
    [][ (PendingDelayConfirmation /\ Ran("cancelDelay"))
        => /\ pendingDelayTask' = Null
           /\ ~showDelayModal'
           /\ ~draggingState'.isDragging
           /\ TasksWithId(localProject'.tasks, pendingDelayTask.task.id)
                 = TasksWithId(preDragTasks, pendingDelayTask.task.id)
           /\ TasksWithId(localProject'.tasks, pendingDelayTask.task.id) # {} ]_vars

\* A pending delay was cancelled.
C5_Witness ==
    /\ lastEvent.name = "cancelDelay"
    /\ Idle

(* C6 as stated: at every column width of the zoom range a drag of exactly *)
(* columnWidth pixels commits a one-day shift, and a drag of columnWidth - 1 *)
(* pixels commits no change.                                                *)
C6_ColumnCommitsDayAndOneLessNothing ==
    [][ (Dragging /\ Ran("mouseUp") /\ colWidth \in MinColWidth .. MaxColWidth)
        => /\ Abs(tempDragOffsetPx) = colWidth
              => \A t \in TasksWithId(localProject'.tasks, draggingState.task.id) :
                    Abs(getDaysDiff(draggingState.startDate, t.startDate)) = 1
           /\ Abs(tempDragOffsetPx) = colWidth - 1
              => localProject' = localProject /\ pendingDelayTask' = Null ]_vars

(* C6, amended: at every column width of the zoom range the pixel offset is *)
(* rounded to the nearest day, so a drag of columnWidth pixels and a drag   *)
(* of columnWidth - 1 pixels both shift by one day: to the left the start   *)
(* date is committed one day earlier, to the right the one-day-later start  *)
(* is held for delay confirmation and no task changes; a drag of less than  *)
(* half a column commits no change.                                         *)
C6_OffsetRoundsToNearestDay ==
    [][ (Dragging /\ Ran("mouseUp") /\ colWidth \in MinColWidth .. MaxColWidth)
        => /\ tempDragOffsetPx \in {-colWidth, -(colWidth - 1)}
              => /\ TasksWithId(localProject'.tasks, draggingState.task.id) # {}
                 /\ \A t \in TasksWithId(localProject'.tasks, draggingState.task.id) :
                       getDaysDiff(draggingState.startDate, t.startDate) = -1
                 /\ pendingDelayTask' = Null
           /\ tempDragOffsetPx \in {colWidth, colWidth - 1}
              => /\ pendingDelayTask' # Null
                 /\ getDaysDiff(draggingState.startDate, pendingDelayTask'.newDate) = 1
                 /\ localProject' = localProject
           /\ 2 * Abs(tempDragOffsetPx) < colWidth
              => localProject' = localProject /\ pendingDelayTask' = pendingDelayTask ]_vars

\* At the widest column a task was dropped one day earlier.
C6_Witness ==
    /\ lastEvent.name = "mouseUp"
    /\ colWidth = MaxColWidth
    /\ Idle
    /\ localProject.tasks[1].startDate = <<2025, 1, 30>>

(* C7: a pointer-down on a task bar creates a drag session only for the     *)
(* administrator or the project's designated manager; for any other caller  *)
(* the session and the rest of the editor's state stay as they were.        *)
C7_OnlyAuthorizedPressStartsDrag ==
    [][ Ran("mouseDown")
        => /\ draggingState' # draggingState => Authorized
           /\ ~Authorized
              => UNCHANGED <<localProject, loginData, viewMode, colWidth, showTeamModal,
                             showDelayModal, pendingDelayTask, delayReasonInput,
                             draggingState, tempDragOffsetPx>> ]_vars

\* A press by a caller who is neither administrator nor manager went unanswered.
C7_Witness ==
    /\ lastEvent.name = "mouseDown"
    /\ loginData.role = "Engineer"
    /\ localProject.manager # NoManager
    /\ localProject.manager # loginData.user
    /\ ~Dragging

(* C8: no state holds an open drag session together with a pending delay    *)
(* candidate, no session opens while a candidate is pending, and a pending  *)
(* candidate changes only by being cleared, by confirmDelay or by cancel.   *)
C8_NoDragWhilePending ==
    [][ /\ ~(Dragging /\ PendingDelayConfirmation)
        /\ ~(draggingState'.isDragging /\ pendingDelayTask' # Null)
        /\ (PendingDelayConfirmation /\ pendingDelayTask' # pendingDelayTask)
              => pendingDelayTask' = Null /\ (Ran("confirmDelay") \/ Ran("cancelDelay")) ]_vars

\* A candidate is pending while the caller may drag and the second task's bar
\* is where a press would reach it.
C8_Witness ==
    /\ PendingDelayConfirmation
    /\ pendingDelayTask.task.id = 1
    /\ Authorized
    /\ getDaysDiff(BaseDate, localProject.tasks[2].startDate) \in -MaxShiftDays .. MaxShiftDays

\* Every handler but the pointer-up.
NotPointerUp ==
    \/ \E i \in TaskIndexes, b \in Buttons, x \in StartXs : handleMouseDown(i, b, x)
    \/ \E o \in DragOffsets : handleMouseMove(draggingState.startX + o)
    \/ \E text \in ReasonTexts : setDelayReasonInput(text)
    \/ confirmDelay
    \/ cancelDelay
    \/ saveWBS

(* C9: in the Dragging state an operation other than pointer-up is          *)
(* available that ends the session, returns the editor to Idle and leaves   *)
(* every task unchanged.                                                    *)
C9_AbortAvailableWhileDragging ==
    Dragging
        => ENABLED ( /\ NotPointerUp
                     /\ ~draggingState'.isDragging
                     /\ pendingDelayTask' = Null
                     /\ localProject'.tasks = localProject.tasks )

\* The task whose reschedule is open: dragged, or awaiting confirmation.
OpenTaskId ==
    IF draggingState.isDragging THEN draggingState.task.id ELSE pendingDelayTask.task.id

(* C10: whenever the project is handed to onUpdate while a drag is in       *)
(* flight or a delay confirmation is pending, the start date it carries for *)
(* the dragged task is the one the task had when the drag began.            *)
C10_SavedProjectIsCommitted ==
    (lastEvent.name = "onUpdate" /\ (Dragging \/ PendingDelayConfirmation))
        => /\ TasksWithId(lastEvent.project.tasks, OpenTaskId) # {}
           /\ \A t \in TasksWithId(lastEvent.project.tasks, OpenTaskId) :
                 \A o \in TasksWithId(preDragTasks, OpenTaskId) :
                     t.startDate = o.startDate
           /\ TasksWithId(preDragTasks, OpenTaskId) # {}

\* The project was saved while a bar was held a day away from its place.
C10_Witness ==
    /\ lastEvent.name = "onUpdate"
    /\ Dragging
    /\ daysDelta # 0

(* C11: after any sequence of task add, task edit, drag commit and delay    *)
(* confirmation, every task of the project has a duration of at least 1.    *)
C11_DurationAtLeastOne ==
    \A k \in 1 .. Len(localProject.tasks) : localProject.tasks[k].duration >= 1

(* C12: no two tasks of the project share an id, a task created by the     *)
(* editor never receives the id of a task deleted before, and a step that   *)
(* edits a task leaves every task's id as it was.                           *)
C12_TaskIdsNeverReused ==
    [][ /\ Cardinality(TaskIds(localProject'.tasks)) = Len(localProject'.tasks)
        /\ TaskIds(localProject'.tasks) \cap deletedIds' = {}
        /\ Len(localProject'.tasks) = Len(localProject.tasks)
              => \A k \in 1 .. Len(localProject.tasks) :
                     localProject'.tasks[k].id = localProject.tasks[k].id ]_vars

(* C13: a task's delayReason changes only in a confirmDelay step taken     *)
(* with a reason that is not blank, and a task the editor creates starts    *)
(* with no delayReason.                                                     *)
C13_DelayReasonOnlyByConfirm ==
    [][ \A j \in 1 .. Len(localProject'.tasks) :
          LET t == localProject'.tasks[j]
          IN  /\ \A o \in TasksWithId(localProject.tasks, t.id) :
                    t.delayReason # o.delayReason
                       => Ran("confirmDelay") /\ ~Blank(delayReasonInput)
              /\ TasksWithId(localProject.tasks, t.id) = {} => t.delayReason = <<>> ]_vars

(* C14: a rename of a WBS category gives every task that carried the old    *)
(* name the new name, and the tasks listed under the category after the     *)
(* rename are those listed under it before.                                 *)
C14_RenameKeepsCategoryTasks ==
    [][ Ran("renameWBS")
        => \A i \in 1 .. Len(localProject.wbs) :
              localProject'.wbs[i].name # localProject.wbs[i].name
                 => /\ \A k \in ListedUnder(localProject.tasks, localProject.wbs[i].name) :
                          localProject'.tasks[k].category = localProject'.wbs[i].name
                    /\ ListedUnder(localProject'.tasks, localProject'.wbs[i].name)
                          = ListedUnder(localProject.tasks, localProject.wbs[i].name) ]_vars

\* The positions of the valid tasks of a category name: dated, of positive duration.
ValidTasksOf(name) ==
    {k \in 1 .. Len(localProject.tasks) :
        /\ localProject.tasks[k].category = name
        /\ localProject.tasks[k].startDate # EmptyDate
        /\ localProject.tasks[k].duration > 0}

\* The sum of weight[k] over a set of task positions.
RECURSIVE SumOver(_, _)
SumOver(positions, weight) ==
    IF positions = {} THEN 0
    ELSE LET k == CHOOSE x \in positions : TRUE
         IN  weight[k] + SumOver(positions \ {k}, weight)

\* The calendar day a task at position k starts and ends on.
StartDay(k) == DaysFromCivil(localProject.tasks[k].startDate)
EndDay(k) == StartDay(k) + localProject.tasks[k].duration

\* The example of the specification.
ExampleRollupTasks ==
    <<[Task(1, <<2025, 1, 1>>, 5) EXCEPT !.progress = 50],
      [Task(2, <<2025, 1, 3>>, 1) EXCEPT !.progress = 100]>>

(* C15: for a category with a valid task the rollup starts on the earliest  *)
(* start day of its valid tasks, ends on their latest start + duration, and *)
(* its progress is the duration-weighted mean of theirs rounded to the      *)
(* nearest integer; the two example tasks give 2025-01-01, 2025-01-06, 58.  *)
C15_RollupIsWeightedSpan ==
    /\ \A i \in WBSIndexes :
          LET name == localProject.wbs[i].name
              valid == ValidTasksOf(name)
              summary == getWBSSummary(name)
              total == SumOver(valid, [k \in valid |-> localProject.tasks[k].duration])
              weighted == SumOver(valid, [k \in valid |-> localProject.tasks[k].duration
                                                             * localProject.tasks[k].progress])
          IN  valid # {}
                 => /\ summary # Null
                    /\ \E k \in valid : localProject.tasks[k].startDate = summary.start
                    /\ \A k \in valid : DaysFromCivil(summary.start) <= StartDay(k)
                    /\ \E k \in valid : DaysFromCivil(summary.end) = EndDay(k)
                    /\ \A k \in valid : DaysFromCivil(summary.end) >= EndDay(k)
                    /\ 2 * summary.progress * total <= 2 * weighted + total
                    /\ 2 * weighted + total < 2 * (summary.progress + 1) * total
    /\ localProject.tasks = ExampleRollupTasks
          => getWBSSummary("phase")
                = [start |-> <<2025, 1, 1>>, end |-> <<2025, 1, 6>>, progress |-> 58]

\* The example's category is collapsed and its bar drawn: five days wide at 58%.
C15_Witness ==
    /\ localProject.tasks = ExampleRollupTasks
    /\ lastEvent.name = "toggleWBS"
    /\ localProject.wbs[1].collapsed
    /\ SummaryBar(1) # Null
    /\ SummaryBar(1).progress = 58
    /\ SummaryBar(1).width = 5 * colWidth

(* C16: the rollup of a category is null exactly when the category has no  *)
(* valid task, be it empty or not, and for a null rollup the collapsed      *)
(* category shows no summary bar.                                           *)
C16_NullRollupDrawsNoBar ==
    \A i \in WBSIndexes :
        LET summary == getWBSSummary(localProject.wbs[i].name)
        IN  /\ summary = Null <=> ValidTasksOf(localProject.wbs[i].name) = {}
            /\ summary = Null => SummaryBar(i) = Null
            /\ (summary # Null /\ localProject.wbs[i].collapsed) => SummaryBar(i) # Null

\* A collapsed category whose only task has no duration, next to a collapsed
\* category with no task at all: neither shows a bar.
C16_Witness ==
    /\ ListedUnder(localProject.tasks, "phase") = {1}
    /\ localProject.tasks[1].startDate # EmptyDate
    /\ localProject.tasks[1].duration = 0
    /\ ListedUnder(localProject.tasks, "other") = {}
    /\ localProject.wbs[1].collapsed /\ localProject.wbs[2].collapsed
    /\ SummaryBar(1) = Null /\ SummaryBar(2) = Null

\* The day the grid has to reach, by the calendar: the latest of the project's
\* start, its end date, and the start + duration of its dated tasks.
LatestDay ==
    LET days ==
            {DaysFromCivil(validStart)}
            \cup (IF localProject.endDate # EmptyDate
                  THEN {DaysFromCivil(localProject.endDate)} ELSE {})
            \cup {StartDay(k) + localProject.tasks[k].duration :
                     k \in {j \in TaskIndexes : localProject.tasks[j].startDate # EmptyDate}}
    IN  CHOOSE d \in days : \A e \in days : e <= d

\* The same, a dated task of duration 0 counting as one day long.
LatestCountedDay ==
    LET days ==
            {DaysFromCivil(validStart)}
            \cup (IF localProject.endDate # EmptyDate
                  THEN {DaysFromCivil(localProject.endDate)} ELSE {})
            \cup {StartDay(k) + (IF localProject.tasks[k].duration = 0 THEN 1
                                 ELSE localProject.tasks[k].duration) :
                     k \in {j \in TaskIndexes : localProject.tasks[j].startDate # EmptyDate}}
    IN  CHOOSE d \in days : \A e \in days : e <= d

FirstGridDay == DaysFromCivil(renderDay(0))
LastGridDay == DaysFromCivil(renderDay(renderDayCount - 1))

(* C17 as stated: the grid's first day is exactly 15 days before the        *)
(* project's start date, and its last day is at least 30 days after the     *)
(* later of the project's end date and the largest task start + duration.   *)
C17_GridReachesThirtyDaysPast ==
    localProject.startDate # EmptyDate
        => /\ FirstGridDay = DaysFromCivil(localProject.startDate) - 15
           /\ LastGridDay >= LatestDay + 30

(* C17, amended: the grid's first day is exactly 15 days before the         *)
(* project's start date (before today when it has none); the grid runs to   *)
(* the 29th day after the latest of the project's start date, its end date  *)
(* and the start + duration of its dated tasks (a duration of 0 counting as *)
(* one day), and is cut to 3650 days when that would make it longer.        *)
C17_GridReachesTwentyNineDaysPast ==
    /\ FirstGridDay = DaysFromCivil(validStart) - 15
    /\ localProject.startDate # EmptyDate
          => FirstGridDay = DaysFromCivil(localProject.startDate) - 15
    /\ IF LatestCountedDay + 29 - FirstGridDay < 3650
       THEN LastGridDay = LatestCountedDay + 29
       ELSE LastGridDay = FirstGridDay + 3649
    /\ (\A k \in TaskIndexes : localProject.tasks[k].duration >= 1)
          => LatestCountedDay = LatestDay

\* A task ends after the project's end date, and the grid ends 29 days after it.
C17_Witness ==
    /\ lastEvent.name = "setEndDate"
    /\ localProject.startDate = <<2025, 1, 31>>
    /\ localProject.endDate = <<2025, 1, 31>>
    /\ Len(localProject.tasks) = 2
    /\ localProject.tasks[1].startDate = <<2025, 1, 31>>
    /\ localProject.tasks[1].duration = 3
    /\ FirstGridDay = DaysFromCivil(<<2025, 1, 16>>)
    /\ LastGridDay = DaysFromCivil(<<2025, 2, 3>>) + 29

(* C18: todayOffset is dayDiff(renderStart, today) * columnWidth while      *)
(* today is a day of the grid, and the do-not-draw value when today is      *)
(* before the grid's first day or after its last day.                       *)
C18_TodayLineOnlyInsideGrid ==
    LET today == DaysFromCivil(Today)
    IN  IF FirstGridDay <= today /\ today <= LastGridDay
        THEN todayOffset = (today - FirstGridDay) * colWidth
        ELSE todayOffset = NoTodayLine

(* C19: after any sequence of preset selections, zoom-button clicks and     *)
(* ctrl-wheel zooms the column width lies within [10, 200].                 *)
C19_ColumnWidthInZoomRange == colWidth \in 10 .. 200

\* A Monday to count weekdays from.
AMonday == DaysFromCivil(<<2025, 6, 9>>)

(* C20: for every reference date the week of the weekly panel is seven      *)
(* consecutive calendar dates, the first a Monday, with the reference date  *)
(* among them; a Sunday's week starts six days before it, and the week      *)
(* of 2025-06-12 is 2025-06-09 .. 2025-06-15.                               *)
C20_WeekIsMondayToSunday ==
    LET reference == IF statsWeeklyDate = EmptyDate THEN DaysFromCivil(Today)
                     ELSE DaysFromCivil(statsWeeklyDate)
        week == [i \in 1 .. 7 |-> DaysFromCivil(weekDays[i])]
    IN  /\ \A i \in 1 .. 7 : toLocalISOString(week[i]) = weekDays[i]
        /\ \A i \in 1 .. 6 : week[i + 1] = week[i] + 1
        /\ (week[1] - AMonday) % 7 = 0
        /\ week[1] <= reference /\ reference <= week[7]
        /\ (reference - AMonday) % 7 = 6 => week[1] = reference - 6
        /\ statsWeeklyDate = <<2025, 6, 12>>
              => weekDays[1] = <<2025, 6, 9>> /\ weekDays[7] = <<2025, 6, 15>>

\* The reference date is a Sunday, the first of a month, and its week began in
\* the previous month.
C20_Witness ==
    /\ lastEvent.name = "setStatsDate"
    /\ statsWeeklyDate = <<2025, 6, 1>>
    /\ weekDays[1] = <<2025, 5, 26>>
    /\ weekDays[7] = <<2025, 6, 1>>

\* A text with its capital letters replaced by small ones.
Lowercased(s) ==
    LET small == [c \in {"A", "P"} |-> IF c = "A" THEN "a" ELSE "p"]
    IN  [k \in DOMAIN s |-> IF s[k] \in DOMAIN small THEN small[s[k]] ELSE s[k]]

\* The log's date, slashes read as dashes, is one of the seven dates of the week.
InsideWeek(l) == \E i \in 1 .. 7 : SlashesToDashes(l.date) = DateStr(weekDays[i])

\* The log's project id and the project's id followed by its name share a token.
SharesToken(l) ==
    Tokens(Lowercased(l.projectId))
       \cap Tokens(Lowercased(localProject.id \o <<" ">> \o localProject.name)) # {}

(* C21: a log dated inside the week, its date written with dashes or with   *)
(* slashes, is among the logs the weekly panel counts exactly when its      *)
(* lowercased projectId equals the lowercased project id or shares a token  *)
(* with the project's id followed by its name.                              *)
C21_LogCountedIffIdOrTokenMatches ==
    \A k \in DOMAIN logs :
        InsideWeek(logs[k]) =>
            (InRangeLogs(logs[k])
                <=> \/ Lowercased(logs[k].projectId) = Lowercased(localProject.id)
                    \/ SharesToken(logs[k]))

\* In the week of 2025-06-12 a log dated "2025/06/10" for "p1" is counted for
\* project "P1", and one of the same day for "p12" is not.
C21_Witness ==
    /\ lastEvent.name = "setStatsDate"
    /\ statsWeeklyDate = <<2025, 6, 12>>
    /\ Len(logs) = 2
    /\ logs[1].date = <<"2", "0", "2", "5", "/", "0", "6", "/", "1", "0">>
    /\ logs[1].projectId = <<"p", "1">>
    /\ InRangeLogs(logs[1])
    /\ logs[2].date = DateStr(<<2025, 6, 10>>)
    /\ logs[2].projectId = <<"p", "1", "2">>
    /\ ~InRangeLogs(logs[2])

\* The hours of the logs at the positions.
HoursAt == [k \in DOMAIN logs |-> logs[k].hours]

C23_MoveAndZeroReleaseKeepTasks ==
    [][ /\ (Dragging /\ Ran("mouseMove"))
           => UNCHANGED <<localProject, draggingState, showDelayModal, pendingDelayTask,
                          delayReasonInput, viewMode, colWidth, PanelState>>
        /\ (Dragging /\ Ran("mouseUp") /\ MathRound(tempDragOffsetPx, colWidth) = 0)
           => /\ localProject' = localProject
              /\ ~draggingState'.isDragging
              /\ pendingDelayTask' = Null
              /\ ~showDelayModal' ]_vars

\* The pointer was released and the editor is Idle with the tasks it was
\* handed: the release moved nothing.
C23_Witness ==
    /\ lastEvent.name = "mouseUp"
    /\ Idle
    /\ localProject.tasks \in InitTaskLists

\* The view modes that are presets.
PresetModes == {"day", "week", "month"}

(* C24: whenever the view mode is day, week or month the column width is    *)
(* that preset's width, and every manual zoom (either zoom button, or a     *)
(* wheel turn that changes the width) leaves the view mode custom.          *)
C24_PresetModeHasPresetWidth ==
    [][ /\ viewMode \in PresetModes => colWidth = PresetWidth(viewMode)
        /\ viewMode' \in PresetModes => colWidth' = PresetWidth(viewMode')
        /\ (Ran("zoomIn") \/ Ran("zoomOut") \/ (Ran("wheel") /\ colWidth' # colWidth))
           => viewMode' = "custom" ]_vars

\* The zoom-in button was pressed in the day view: the width is 45 and the
\* mode is custom.
C24_Witness ==
    /\ lastEvent.name = "zoomIn"
    /\ colWidth = 45
    /\ viewMode = "custom"

(* C25: whenever the editor enters PendingDelayConfirmation the delay-      *)
(* reason input is empty, so that a reason typed into a prompt that was     *)
(* then cancelled is not offered to, or committed by, a later prompt.       *)
C25_PromptOpensWithEmptyReason ==
    [][ (~PendingDelayConfirmation /\ PendingDelayConfirmation')
           => delayReasonInput' = <<>> ]_vars

(* C26: in an editor opened by a caller who is neither administrator nor    *)
(* the project's manager, no sequence of drags, task-edit modal operations  *)
(* and team or manager toggles changes the start date of any task of the    *)
(* project the save button hands over.                                      *)
C26_UnprivilegedCallerMovesNoTask ==
    \A k \in TaskIndexes : localProject.tasks[k].startDate = BaseDate

(* C27: zoom is monotonic from every width the editor reaches, the presets' *)
(* widths included: the zoom-out button never widens the column and the     *)
(* zoom-in button never narrows it.                                         *)
C27_ZoomIsMonotonic ==
    [][ /\ Ran("zoomOut") => colWidth' <= colWidth
        /\ Ran("zoomIn") => colWidth' >= colWidth ]_vars

\* The positions of the WBS categories that carry the name.
CategoriesNamed(name) == {i \in WBSIndexes : localProject.wbs[i].name = name}

(* C28: after any sequence of WBS category additions, renames and           *)
(* deletions every task's category is the name of exactly one WBS           *)
(* category: never of none, never of two.                                   *)
C28_TaskUnderExactlyOneCategory ==
    \A k \in TaskIndexes :
        Cardinality(CategoriesNamed(localProject.tasks[k].category)) = 1

\* The id of the task a pointer-up or a confirmation is about.
RescheduledId ==
    IF pendingDelayTask # Null THEN pendingDelayTask.task.id ELSE draggingState.task.id

(* C29: a reschedule committed by a pointer-up or by a delay confirmation   *)
(* changes the start date of the dragged task, and its delayReason when     *)
(* confirmed, and nothing else of the project: the task's other fields,     *)
(* every other task, the number and order of the tasks, the WBS categories, *)
(* the holidays and the rest of the project are as before.                  *)
C29_RescheduleChangesOnlyStartDate ==
    [][ ((Ran("mouseUp") \/ Ran("confirmDelay")) /\ localProject' # localProject)
        => /\ [localProject' EXCEPT !.tasks = localProject.tasks] = localProject
           /\ Len(localProject'.tasks) = Len(localProject.tasks)
           /\ \A k \in TaskIndexes :
                 IF localProject.tasks[k].id = RescheduledId
                 THEN /\ [localProject'.tasks[k] EXCEPT
                             !.startDate = localProject.tasks[k].startDate,
                             !.delayReason = localProject.tasks[k].delayReason]
                            = localProject.tasks[k]
                      /\ Ran("mouseUp")
                            => localProject'.tasks[k].delayReason
                                  = localProject.tasks[k].delayReason
                 ELSE localProject'.tasks[k] = localProject.tasks[k] ]_vars

\* The first task was dropped a day earlier; the second task, the WBS
\* categories and the holidays are those of the project handed in.
C29_Witness ==
    /\ lastEvent.name = "mouseUp"
    /\ localProject.tasks[1] = Task(1, <<2025, 1, 30>>, 3)
    /\ localProject.tasks[2] = Task(2, EmptyDate, 1)
    /\ localProject.wbs = <<WBSCategory(1, "phase")>>
    /\ localProject.holidays = {}

(* C30: after any sequence of committed drags and task edits every task's   *)
(* bar lies inside the grid: its left edge, dayDiff(renderStart, startDate) *)
(* columns from the grid's start, is not negative, and its right edge, left *)
(* + max(columnWidth, duration * columnWidth), is not past the grid's total *)
(* width.                                                                   *)
C30_BarsLieInsideGrid ==
    ~Dragging =>
        \A k \in TaskIndexes :
            /\ 0 <= getTaskLeft(localProject.tasks[k])
            /\ getTaskLeft(localProject.tasks[k]) + TaskBarWidth(localProject.tasks[k])
                  <= totalContentWidth

=============================================================================
